---- MODULE Spec2Model ----
(***************************************************************************)
(* SVG image service (server.js).  The file holds two deployments of the   *)
(* same HTTP surface:                                                      *)
(*   - the inline variant (lines 1-375): bytes live in images.content;     *)
(*   - the filesystem variant (lines 377-627): bytes live in uploads/,     *)
(*     the images table holds metadata only.                               *)
(* A behaviour runs one of the two deployments (variable variant).  Every  *)
(* HTTP request takes a slot and walks through its handler.  A handler     *)
(* reads or writes the table or the directory at most once per step: the   *)
(* steps are the database statements and the synchronous file operations,  *)
(* each taken together with the handler's own code around it.  A handler   *)
(* with a single such point (every handler of the inline variant) is one   *)
(* step.                                                                   *)
(***************************************************************************)
EXTENDS Integers, Sequences, FiniteSets, TLC

VARIABLES
    variant,    \* "inline" or "fs": which deployment is running
    table,      \* the rows of the images table
    nextId,     \* the SERIAL sequence behind images.id
    files,      \* the uploads/ directory: filename -> file (fs variant)
    now,        \* the clock read by NOW() and by file creation
    pc,         \* per request slot: the await its handler stands at
    req,        \* per request slot: the request and what the handler holds
    sent,       \* the response sent in the last step, with its request
    hist,       \* history: per filename, the outcome of its last upload/delete
    live,       \* history: filenames uploaded with success and not deleted since
    uploads     \* history: number of upload requests so far

vars == <<variant, table, nextId, files, now, pc, req, sent, hist, live, uploads>>

-----------------------------------------------------------------------------
(* Bounds and inputs *)

\* number of upload requests in one behaviour
MaxUploads == 2

\* concurrent request slots
Procs == {1, 2}

\* 5 * 1024 * 1024, multer limits.fileSize
FileSizeLimit == 5242880

SvgMime == "image/svg+xml"

\* Filenames are sequences of segments; the last segment carries the extension.
NameSvg  == <<"a", ".SVG">>
NamePng  == <<"c", ".png">>
NameList == <<"list">>
Names == {NameSvg, NamePng, NameList}

MimeTypes == {SvgMime, "image/png"}

\* Payloads are sequences of byte runs.  "BAD" is a byte that is no valid
\* UTF-8 (0xFF); "FFFD" is the three bytes of U+FFFD; "PAD" is a run of
\* FileSizeLimit spaces.
ByteLen(tok) ==
    CASE tok = "<svg"   -> 4
      [] tok = "</svg>" -> 6
      [] tok = "x"      -> 1
      [] tok = "BAD"    -> 1
      [] tok = "FFFD"   -> 3
      [] tok = "PAD"    -> FileSizeLimit

RECURSIVE Size(_)
Size(bytes) == IF bytes = <<>> THEN 0 ELSE ByteLen(Head(bytes)) + Size(Tail(bytes))

Bodies == { <<"<svg", "</svg>">>,
            <<"<svg", "BAD", "</svg>">>,
            <<"PAD">>,
            <<"<svg", "PAD", "</svg>">> }

\* a payload that is the UTF-8 encoding of some text
IsText(bytes) == \A i \in 1..Len(bytes) : bytes[i] # "BAD"

-----------------------------------------------------------------------------
(* Pure functions of the handlers *)

\* String.prototype.toLowerCase on a filename
ToLowerCase(name) ==
    [i \in 1..Len(name) |->
        CASE name[i] = ".SVG" -> ".svg"
          [] name[i] = ".PNG" -> ".png"
          [] OTHER -> name[i]]

\* String.prototype.endsWith
EndsWith(name, suffix) ==
    /\ Len(name) >= Len(suffix)
    /\ SubSeq(name, Len(name) - Len(suffix) + 1, Len(name)) = suffix

\* fileFilter: cb(null, true) iff the MIME type or the extension says SVG
FileFilter(mime, name) == mime = SvgMime \/ EndsWith(ToLowerCase(name), <<".svg">>)

\* Buffer.prototype.toString('utf8'): invalid bytes decode to U+FFFD
Utf8Decode(bytes) == [i \in 1..Len(bytes) |-> IF bytes[i] = "BAD" THEN "FFFD" ELSE bytes[i]]

\* res.send(string): the body is the UTF-8 encoding of the string (a text is
\* held as the byte runs of its encoding, U+FFFD as "FFFD")
Utf8Encode(text) == text

\* String.prototype.includes
Includes(text, tok) == \E i \in 1..Len(text) : text[i] = tok

\* the content check of the inline upload handler
LooksLikeSvg(text) == Includes(text, "<svg") /\ Includes(text, "</svg>")

-----------------------------------------------------------------------------
(* The images table *)

RowsOf(t, f) == {r \in t : r.filename = f}
HasRow(t, f) == RowsOf(t, f) # {}
TheRow(t, f) == CHOOSE r \in t : r.filename = f

\* INSERT ... ON CONFLICT (filename) DO UPDATE SET original_name, size,
\* content, uploaded_at = NOW()   (inline variant; mime_type is not updated)
\* (UpsertInlineNoConflict: a plain INSERT on a table without the UNIQUE
\* constraint; UpsertInlineKeepsContent: content missing from the SET list)
UpsertInlineNoConflict(t, id, f, orig, size, content, mime, ts) ==
    t \cup {[id |-> id, filename |-> f, original_name |-> orig, size |-> size,
             content |-> content, mime_type |-> mime, uploaded_at |-> ts]}
UpsertInlineKeepsContent(t, id, f, orig, size, content, mime, ts) ==
    IF HasRow(t, f)
    THEN {IF r.filename = f
          THEN [r EXCEPT !.original_name = orig, !.size = size, !.uploaded_at = ts]
          ELSE r : r \in t}
    ELSE t \cup {[id |-> id, filename |-> f, original_name |-> orig, size |-> size,
                  content |-> content, mime_type |-> mime, uploaded_at |-> ts]}
UpsertInline(t, id, f, orig, size, content, mime, ts) ==
    IF HasRow(t, f)
    THEN {IF r.filename = f
          THEN [r EXCEPT !.original_name = orig, !.size = size,
                         !.content = content, !.uploaded_at = ts]
          ELSE r : r \in t}
    ELSE t \cup {[id |-> id, filename |-> f, original_name |-> orig, size |-> size,
                  content |-> content, mime_type |-> mime, uploaded_at |-> ts]}

\* INSERT ... ON CONFLICT (filename) DO UPDATE SET original_name, size
\* (filesystem variant; uploaded_at keeps its DEFAULT NOW() of the insert)
UpsertFs(t, id, f, orig, size, ts) ==
    IF HasRow(t, f)
    THEN {IF r.filename = f
          THEN [r EXCEPT !.original_name = orig, !.size = size]
          ELSE r : r \in t}
    ELSE t \cup {[id |-> id, filename |-> f, original_name |-> orig, size |-> size,
                  uploaded_at |-> ts]}

\* DELETE FROM images WHERE filename = $1
\* (DeleteRowsKeeps: the statement removes nothing)
DeleteRowsKeeps(t, f) == t
DeleteRows(t, f) == t \ RowsOf(t, f)

-----------------------------------------------------------------------------
(* The uploads directory (filesystem variant) *)

\* a file: its bytes, st_size, st_birthtime and inode (0: none)
NoFile == [exists |-> FALSE, content |-> <<>>, size |-> 0, birthtime |-> 0, ino |-> 0]

\* fs.createWriteStream(path) of multer.diskStorage: an existing file is
\* truncated and keeps its inode and birthtime, a missing one is created
OpenForWrite(dir, f, t) ==
    IF dir[f].exists
    THEN [dir EXCEPT ![f].content = <<>>, ![f].size = 0]
    ELSE [dir EXCEPT ![f] = [exists |-> TRUE, content |-> <<>>, size |-> 0,
                             birthtime |-> t, ino |-> t]]

\* the stream writes the payload from offset 0 of the inode it opened: bytes
\* another stream wrote beyond the payload's end stay ("TAIL"); a file
\* unlinked since the open is not the one written
WriteFile(dir, f, fd, bytes) ==
    IF dir[f].exists /\ dir[f].ino = fd
    THEN IF Size(bytes) >= dir[f].size
         THEN [dir EXCEPT ![f].content = bytes, ![f].size = Size(bytes)]
         ELSE [dir EXCEPT ![f].content = bytes \o <<"TAIL">>]
    ELSE dir

\* fs.unlinkSync(path) / fs.unlink(path) of multer's removal after an abort
\* (UnlinkKeeps: the file stays)
UnlinkKeeps(dir, f) == dir
Unlink(dir, f) == [dir EXCEPT ![f] = NoFile]

\* fs.readdirSync(uploadsDir).filter(f => f.toLowerCase().endsWith('.svg'))
ListedFiles(dir) == {f \in Names : dir[f].exists /\ EndsWith(ToLowerCase(f), <<".svg">>)}

-----------------------------------------------------------------------------
(* Requests and responses *)

\* a request (op, name, mime, body), what its handler holds across its awaits
\* (fd, snap, stat), and history: what the request found when it arrived
\* (hadFile, hadRow, before), whether its statement failed (dbfail), whether
\* it opened its file for writing (wrote), and, for a delete, whether an
\* upload of the same name has run since it arrived (tainted)
NoReq == [op |-> "none", name |-> <<>>, mime |-> "", body |-> <<>>,
          fd |-> 0, snap |-> {}, stat |-> NoFile,
          hadFile |-> FALSE, hadRow |-> FALSE, before |-> 0,
          dbfail |-> FALSE, wrote |-> FALSE, tainted |-> FALSE]

NoEntry == [filename |-> <<>>, originalName |-> <<>>, size |-> 0, uploadedAt |-> 0]

NoResp == [status |-> 0, handler |-> "none", success |-> FALSE, message |-> "",
           body |-> <<>>, ctype |-> "", count |-> 0, images |-> {}, data |-> NoEntry]

NoHist == [state |-> "never", body |-> <<>>, dbfail |-> FALSE]
Unknown == [state |-> "unknown", body |-> <<>>, dbfail |-> FALSE]

NoSent == [req |-> NoReq, resp |-> NoResp, pre |-> NoHist, rowsBefore |-> 0,
           fileChanged |-> FALSE, rowChanged |-> FALSE]

\* res.status(code).json({success, message})
Json(handler, code, success, message) ==
    [NoResp EXCEPT !.status = code, !.handler = handler, !.success = success,
                   !.message = message]

\* the error-handling middleware: only multer's LIMIT_FILE_SIZE becomes a 400
ErrorMiddleware(isMulterError, code, message) ==
    IF isMulterError /\ code = "LIMIT_FILE_SIZE"
    THEN Json("error", 400, FALSE, "File too large. Maximum size is 5MB.")
    ELSE Json("error", 500, FALSE, message)

\* multer's outcome for a file the fileFilter refuses: cb(new Error(...), false)
\* aborts the request with that error, which reaches the error middleware
FilterRejected == ErrorMiddleware(FALSE, "", "Only SVG files are allowed!")

\* busboy's limits.fileSize: the stream is cut and 'limit' is emitted when
\* the file holds more bytes than the limit
ExceedsLimit(size) == size > FileSizeLimit

TooLarge == ErrorMiddleware(TRUE, "LIMIT_FILE_SIZE", "File too large")

\* the success response of POST /upload
UploadOk(name, size) ==
    [Json("upload", 200, TRUE, "SVG image uploaded successfully") EXCEPT
        !.data = [filename |-> name, originalName |-> name, size |-> size,
                  uploadedAt |-> 0]]

\* the catch of the inline upload's upsert
\* (UploadDbErrorSwallowed: the error is logged only, as in the other variant)
UploadDbErrorSwallowed == Json("upload", 200, TRUE, "SVG image uploaded successfully")
UploadDbError == Json("upload", 500, FALSE, "Database error while saving image")

\* one element of imageList / the data of GET /api/images/:filename (inline)
EntryInline(row) ==
    [filename |-> row.filename,
     originalName |-> IF row.original_name # <<>> THEN row.original_name ELSE row.filename,
     size |-> row.size,
     uploadedAt |-> row.uploaded_at]

\* the same in the filesystem variant: meta?.x || the value of fs.statSync
EntryFs(f, rows, stat) ==
    IF rows = {}
    THEN [filename |-> f, originalName |-> f, size |-> stat.size,
          uploadedAt |-> stat.birthtime]
    ELSE LET meta == CHOOSE r \in rows : TRUE IN
         [filename |-> f,
          originalName |-> IF meta.original_name # <<>> THEN meta.original_name ELSE f,
          size |-> IF meta.size # 0 THEN meta.size ELSE stat.size,
          uploadedAt |-> IF meta.uploaded_at # 0 THEN meta.uploaded_at ELSE stat.birthtime]

\* the uploadedAt GET /api/images/:filename reports in the current state
\* (0: it answers 404)
ReportedAt(f) ==
    IF variant = "inline"
    THEN IF HasRow(table, f) THEN EntryInline(TheRow(table, f)).uploadedAt ELSE 0
    ELSE IF files[f].exists THEN EntryFs(f, RowsOf(table, f), files[f]).uploadedAt ELSE 0

\* the uploadedAt GET /images/list reports for f in the current state
\* (0: f is not in the list)
ListedAt(f) ==
    IF variant = "inline"
    THEN IF HasRow(table, f) THEN EntryInline(TheRow(table, f)).uploadedAt ELSE 0
    ELSE IF f \in ListedFiles(files)
         THEN EntryFs(f, RowsOf(table, f), files[f]).uploadedAt ELSE 0

\* send's Content-Type by extension (express.static)
StaticType(name) ==
    IF EndsWith(ToLowerCase(name), <<".svg">>) THEN SvgMime ELSE "application/octet-stream"

\* which handler GET /images/<seg> enters first: the filesystem variant mounts
\* express.static on /images before its routes; the inline variant registers
\* /images/list before /images/:filename
Route(v, seg) ==
    IF v = "fs" THEN "static"
    ELSE IF seg = NameList THEN "list" ELSE "serve"

-----------------------------------------------------------------------------
(* History *)

\* hist[f] once the request r on f is answered
HistAfter(r, answer) ==
    CASE r.op = "upload" ->
            [hist EXCEPT ![r.name] =
                IF answer.status = 200
                THEN [state |-> "uploaded", body |-> r.body, dbfail |-> r.dbfail]
                ELSE Unknown]
      [] r.op = "delete" ->
            [hist EXCEPT ![r.name] =
                IF answer.status = 200
                THEN IF r.tainted THEN Unknown
                     ELSE [state |-> "deleted", body |-> <<>>, dbfail |-> r.dbfail]
                ELSE IF answer.status = 404 /\ hist[r.name].state \in {"never", "deleted"}
                     THEN hist[r.name]
                     ELSE Unknown]
      [] OTHER -> hist

LiveAfter(r, answer) ==
    CASE r.op = "upload" /\ answer.status = 200 -> live \cup {r.name}
      [] r.op = "delete" /\ answer.status = 200 -> live \ {r.name}
      [] OTHER -> live

\* the handler in slot p answers request r; the slot is free again
Respond(p, r, answer) ==
    /\ pc' = [pc EXCEPT ![p] = "idle"]
    /\ sent' = [req |-> r, resp |-> answer, pre |-> hist[r.name],
                rowsBefore |-> Cardinality(RowsOf(table, r.name)),
                fileChanged |-> \/ files'[r.name].exists # r.hadFile
                                \/ r.wrote /\ files'[r.name].exists,
                rowChanged |-> RowsOf(table', r.name) # RowsOf(table, r.name)]
    /\ hist' = HistAfter(r, answer)
    /\ live' = LiveAfter(r, answer)

\* the handler in slot p moves on to its next await
Goto(p, label) ==
    /\ pc' = [pc EXCEPT ![p] = label]
    /\ sent' = NoSent
    /\ UNCHANGED <<hist, live>>

\* an arriving request takes the first free slot
Free(p) ==
    /\ pc[p] = "idle"
    /\ \A q \in Procs : q < p => pc[q] # "idle"

\* a request as it arrives
Arriving(op, name, mime, body) ==
    [NoReq EXCEPT !.op = op, !.name = name, !.mime = mime, !.body = body,
                  !.hadFile = files[name].exists, !.hadRow = HasRow(table, name),
                  !.before = ReportedAt(name)]

-----------------------------------------------------------------------------
(* Initial state: the table is created empty, uploads/ is created empty *)

Init ==
    /\ variant \in {"inline", "fs"}
    /\ table = {}
    /\ nextId = 1
    /\ files = [f \in Names |-> NoFile]
    /\ now = 0
    /\ pc = [p \in Procs |-> "idle"]
    /\ req = [p \in Procs |-> NoReq]
    /\ sent = NoSent
    /\ hist = [f \in Names |-> NoHist]
    /\ live = {}
    /\ uploads = 0

-----------------------------------------------------------------------------
(* Inline variant: every handler issues one statement *)

\* POST /upload: upload.single('image') with multer.memoryStorage(), then
\* the handler body
UploadInline(p) ==
    /\ variant = "inline"
    /\ Free(p)
    /\ UNCHANGED <<variant, files, req>>
    /\ uploads < MaxUploads
    /\ uploads' = uploads + 1
    /\ \E name \in Names, mime \in MimeTypes, body \in Bodies :
        LET r == Arriving("upload", name, mime, body)
            svgContent == Utf8Decode(body)
            size == Size(body)
        IN  IF ~FileFilter(mime, name)
            THEN /\ UNCHANGED <<table, nextId, now>>
                 /\ Respond(p, r, FilterRejected)
            ELSE IF ExceedsLimit(size)
            THEN /\ UNCHANGED <<table, nextId, now>>
                 /\ Respond(p, r, TooLarge)
            ELSE IF ~LooksLikeSvg(svgContent)
            THEN /\ UNCHANGED <<table, nextId, now>>
                 /\ Respond(p, r, Json("upload", 400, FALSE, "Invalid SVG file format"))
            ELSE \E ok \in BOOLEAN :
                   IF ok
                   THEN /\ table' = UpsertInline(table, nextId, name, name, size,
                                                 svgContent, SvgMime, now + 1)
                        /\ nextId' = nextId + 1
                        /\ now' = now + 1
                        /\ Respond(p, r, UploadOk(name, size))
                   ELSE /\ UNCHANGED <<table, nextId, now>>
                        /\ Respond(p, [r EXCEPT !.dbfail = TRUE], UploadDbError)

\* DELETE /images/:filename
DeleteInline(p) ==
    /\ variant = "inline"
    /\ Free(p)
    /\ UNCHANGED <<variant, nextId, files, now, req, uploads>>
    /\ \E name \in Names, ok \in BOOLEAN :
        LET r == Arriving("delete", name, "", <<>>)
            after == DeleteRows(table, name)
            rowCount == Cardinality(table) - Cardinality(after)
        IN  IF ok
            THEN /\ table' = after
                 /\ IF rowCount = 0
                    THEN Respond(p, r, Json("delete", 404, FALSE, "Image not found"))
                    ELSE Respond(p, r, Json("delete", 200, TRUE,
                                            "Image deleted successfully"))
            ELSE /\ UNCHANGED table
                 /\ Respond(p, [r EXCEPT !.dbfail = TRUE],
                            Json("delete", 500, FALSE, "Error deleting image"))

\* GET /images/list
ListInline(p) ==
    /\ variant = "inline"
    /\ Free(p)
    /\ UNCHANGED <<variant, table, nextId, files, now, req, uploads>>
    /\ \E seg \in Names, ok \in BOOLEAN :
        LET r == Arriving("get", seg, "", <<>>) IN
        /\ Route(variant, seg) = "list"
        /\ IF ok
           THEN Respond(p, r, [Json("list", 200, TRUE, "") EXCEPT
                                 !.count = Cardinality(table),
                                 !.images = {EntryInline(row) : row \in table}])
           ELSE Respond(p, [r EXCEPT !.dbfail = TRUE],
                        Json("list", 500, FALSE, "Error fetching image list"))

\* GET /api/images/:filename
InfoInline(p) ==
    /\ variant = "inline"
    /\ Free(p)
    /\ UNCHANGED <<variant, table, nextId, files, now, req, uploads>>
    /\ \E name \in Names, ok \in BOOLEAN :
        LET r == Arriving("info", name, "", <<>>) IN
        IF ok
        THEN IF ~HasRow(table, name)
             THEN Respond(p, r, Json("info", 404, FALSE, "Image not found"))
             ELSE Respond(p, r, [Json("info", 200, TRUE, "") EXCEPT
                                   !.data = EntryInline(TheRow(table, name))])
        ELSE Respond(p, [r EXCEPT !.dbfail = TRUE],
                     Json("info", 500, FALSE, "Error fetching image"))

\* GET /images/:filename: the content column, sent as the body; ctype is the
\* media type of the Content-Type header (res.send adds "; charset=utf-8")
ServeInline(p) ==
    /\ variant = "inline"
    /\ Free(p)
    /\ UNCHANGED <<variant, table, nextId, files, now, req, uploads>>
    /\ \E seg \in Names, ok \in BOOLEAN :
        LET r == Arriving("get", seg, "", <<>>) IN
        /\ Route(variant, seg) = "serve"
        /\ IF ok
           THEN IF ~HasRow(table, seg)
                THEN Respond(p, r, Json("serve", 404, FALSE, "Image not found"))
                ELSE LET image == TheRow(table, seg) IN
                     IF image.content = <<>>
                     THEN Respond(p, r, Json("serve", 404, FALSE,
                            "Image content not available. Please re-upload the image."))
                     ELSE Respond(p, r, [NoResp EXCEPT
                            !.status = 200, !.handler = "serve",
                            !.ctype = IF image.mime_type # "" THEN image.mime_type
                                      ELSE SvgMime,
                            !.body = Utf8Encode(image.content)])
           ELSE Respond(p, [r EXCEPT !.dbfail = TRUE],
                        Json("serve", 500, FALSE, "Error serving image"))

-----------------------------------------------------------------------------
(* Filesystem variant *)

\* POST /upload: upload.single('image') with multer.diskStorage.  After the
\* fileFilter the file is streamed to uploads/<originalname>
MulterDiskOpen(p) ==
    /\ variant = "fs"
    /\ Free(p)
    /\ UNCHANGED <<variant, table, nextId>>
    /\ uploads < MaxUploads
    /\ uploads' = uploads + 1
    /\ \E name \in Names, mime \in MimeTypes, body \in Bodies :
        LET r == Arriving("upload", name, mime, body) IN
        IF ~FileFilter(mime, name)
        THEN /\ UNCHANGED <<files, now, req>>
             /\ Respond(p, r, FilterRejected)
        ELSE /\ files' = OpenForWrite(files, name, now + 1)
             /\ now' = IF files[name].exists THEN now ELSE now + 1
             /\ req' = [q \in Procs |->
                          IF q = p
                          THEN [r EXCEPT !.fd = files'[name].ino, !.wrote = TRUE]
                          ELSE IF req[q].op = "delete" /\ req[q].name = name
                               THEN [req[q] EXCEPT !.tainted = TRUE]
                               ELSE req[q]]
             /\ pc' = [pc EXCEPT ![p] = "writing"]
             /\ sent' = NoSent
             /\ hist' = [hist EXCEPT ![name] = Unknown]
             /\ UNCHANGED live

\* the stream ends: either the size limit cut it, and multer removes the file
\* it stored and fails the request, or the payload is on disk
MulterDiskWrite(p) ==
    /\ variant = "fs"
    /\ pc[p] = "writing"
    /\ UNCHANGED <<variant, table, nextId, now, uploads>>
    /\ IF ExceedsLimit(Size(req[p].body))
       THEN /\ files' = Unlink(files, req[p].name)
            /\ req' = [req EXCEPT ![p] = NoReq]
            /\ Respond(p, req[p], TooLarge)
       ELSE /\ files' = WriteFile(files, req[p].name, req[p].fd, req[p].body)
            /\ Goto(p, "handler")
            /\ UNCHANGED req

\* the handler body: the upsert's failure is logged only
UploadFs(p) ==
    /\ variant = "fs"
    /\ pc[p] = "handler"
    /\ UNCHANGED <<variant, files, uploads>>
    /\ LET name == req[p].name
           size == Size(req[p].body)
       IN  \E ok \in BOOLEAN :
              /\ IF ok
                 THEN /\ table' = UpsertFs(table, nextId, name, name, size, now + 1)
                      /\ nextId' = nextId + 1
                      /\ now' = now + 1
                 ELSE UNCHANGED <<table, nextId, now>>
              /\ Respond(p, [req[p] EXCEPT !.dbfail = ~ok], UploadOk(name, size))
    /\ req' = [req EXCEPT ![p] = NoReq]

\* the 404 guard of app.delete('/images/:filename')
\* (DeleteFsNotFoundEither: it also looks for the row)
DeleteFsNotFoundEither(dir, t, f) == ~dir[f].exists \/ ~HasRow(t, f)
DeleteFsNotFound(dir, t, f) == ~dir[f].exists

\* DELETE /images/:filename up to its await: existsSync, unlinkSync
DeleteFsUnlink(p) ==
    /\ variant = "fs"
    /\ Free(p)
    /\ UNCHANGED <<variant, table, nextId, now, uploads>>
    /\ \E name \in Names :
        LET r == [Arriving("delete", name, "", <<>>) EXCEPT
                    !.tainted = \E q \in Procs : /\ req[q].op = "upload"
                                                 /\ req[q].name = name]
        IN  IF DeleteFsNotFound(files, table, name)
            THEN /\ UNCHANGED <<files, req>>
                 /\ Respond(p, r, Json("delete", 404, FALSE, "Image not found"))
            ELSE /\ files' = Unlink(files, name)
                 /\ req' = [req EXCEPT ![p] = r]
                 /\ Goto(p, "dbdelete")

\* ... and from the DELETE statement on: its failure is logged only
DeleteFsDb(p) ==
    /\ variant = "fs"
    /\ pc[p] = "dbdelete"
    /\ UNCHANGED <<variant, nextId, files, now, uploads>>
    /\ \E ok \in BOOLEAN :
          /\ table' = IF ok THEN DeleteRows(table, req[p].name) ELSE table
          /\ Respond(p, [req[p] EXCEPT !.dbfail = ~ok],
                     Json("delete", 200, TRUE, "Image deleted successfully"))
    /\ req' = [req EXCEPT ![p] = NoReq]

\* GET /images/<seg>: express.static serves an existing file; anything else
\* falls through to the routes, where only /images/list is a GET route
Static(p) ==
    /\ variant = "fs"
    /\ Free(p)
    /\ UNCHANGED <<variant, table, nextId, files, now, uploads>>
    /\ \E seg \in Names :
        LET r == Arriving("get", seg, "", <<>>) IN
        /\ Route(variant, seg) = "static"
        /\ IF files[seg].exists
           THEN /\ Respond(p, r, [NoResp EXCEPT !.status = 200, !.handler = "static",
                                                !.ctype = StaticType(seg),
                                                !.body = files[seg].content])
                /\ UNCHANGED req
           ELSE IF seg = NameList
                THEN /\ req' = [req EXCEPT ![p] = [r EXCEPT !.snap = ListedFiles(files)]]
                     /\ Goto(p, "listquery")
                ELSE /\ Respond(p, r, Json("none", 404, FALSE, "Cannot GET"))
                     /\ UNCHANGED req

\* GET /images/list from its SELECT on (the readdirSync came before the
\* await): a failed query leaves dbRows empty; statSync throws for a file
\* removed since the readdir
ListFsQuery(p) ==
    /\ variant = "fs"
    /\ pc[p] = "listquery"
    /\ UNCHANGED <<variant, table, nextId, files, now, uploads>>
    /\ \E ok \in BOOLEAN :
          LET listed == req[p].snap
              dbRows == IF ok THEN {row \in table : row.filename \in listed} ELSE {}
              r == [req[p] EXCEPT !.dbfail = ~ok]
          IN  IF \E f \in listed : ~files[f].exists
              THEN Respond(p, r, Json("list", 500, FALSE, "Error fetching image list"))
              ELSE Respond(p, r, [Json("list", 200, TRUE, "") EXCEPT
                                    !.count = Cardinality(listed),
                                    !.images = {EntryFs(f, RowsOf(dbRows, f), files[f]) :
                                                f \in listed}])
    /\ req' = [req EXCEPT ![p] = NoReq]

\* GET /api/images/:filename up to its await: existsSync, statSync
InfoFsStat(p) ==
    /\ variant = "fs"
    /\ Free(p)
    /\ UNCHANGED <<variant, table, nextId, files, now, uploads>>
    /\ \E name \in Names :
        LET r == Arriving("info", name, "", <<>>) IN
        IF ~files[name].exists
        THEN /\ Respond(p, r, Json("info", 404, FALSE, "Image not found"))
             /\ UNCHANGED req
        ELSE /\ req' = [req EXCEPT ![p] = [r EXCEPT !.stat = files[name]]]
             /\ Goto(p, "infoquery")

\* ... and from the SELECT on
InfoFsQuery(p) ==
    /\ variant = "fs"
    /\ pc[p] = "infoquery"
    /\ UNCHANGED <<variant, table, nextId, files, now, uploads>>
    /\ \E ok \in BOOLEAN :
          LET name == req[p].name
              rows == IF ok THEN RowsOf(table, name) ELSE {}
          IN  Respond(p, [req[p] EXCEPT !.dbfail = ~ok],
                      [Json("info", 200, TRUE, "") EXCEPT
                          !.data = EntryFs(name, rows, req[p].stat)])
    /\ req' = [req EXCEPT ![p] = NoReq]

-----------------------------------------------------------------------------
(* Specifications *)

\* a request arrives and runs to its first await (or to its response)
Arrive(p) ==
    \/ UploadInline(p) \/ DeleteInline(p) \/ ListInline(p)
    \/ InfoInline(p) \/ ServeInline(p)
    \/ MulterDiskOpen(p) \/ DeleteFsUnlink(p) \/ Static(p) \/ InfoFsStat(p)

\* a handler resumes after an await
Resume(p) ==
    \/ MulterDiskWrite(p) \/ UploadFs(p) \/ DeleteFsDb(p)
    \/ ListFsQuery(p) \/ InfoFsQuery(p)

\* requests overlap freely: every await is a point where another runs
Next == \E p \in Procs : Arrive(p) \/ Resume(p)

Spec == Init /\ [][Next]_vars

\* uploads and deletes alone, overlapping freely
Write(p) ==
    \/ UploadInline(p) \/ DeleteInline(p)
    \/ MulterDiskOpen(p) \/ MulterDiskWrite(p) \/ UploadFs(p)
    \/ DeleteFsUnlink(p) \/ DeleteFsDb(p)

\* the name "list" matters to the GET routes only: to an upload or a delete
\* it is one more name without the .svg extension, as NamePng is
WriteNames == Names \ {NameList}

WriteNext ==
    \E p \in Procs :
        /\ Write(p)
        /\ sent'.req.name \in WriteNames \cup {<<>>}
        /\ \A q \in Procs : req'[q].name \in WriteNames \cup {<<>>}

WriteSpec == Init /\ [][WriteNext]_vars

\* one request at a time: a request arrives only when no other is open
AllIdle == \A q \in Procs : pc[q] = "idle"

SeqNext == \E p \in Procs : (AllIdle /\ Arrive(p)) \/ Resume(p)

SeqSpec == Init /\ [][SeqNext]_vars

-----------------------------------------------------------------------------
(* Claims.  sent is the response of the last step, sent.pre what hist said *)
(* of its filename before it; under SeqSpec no other request was open.     *)

\* the request just answered
Answered(op) == sent.req.op = op

C2_OneRowPerFilename ==
    /\ \A f \in Names : Cardinality(RowsOf(table, f)) <= 1
    /\ ( /\ Answered("upload")
         /\ sent.resp.status = 200
         /\ ~sent.req.dbfail
         /\ sent.rowsBefore = 1 )
       => /\ Cardinality(RowsOf(table, sent.req.name)) = 1
          /\ TheRow(table, sent.req.name).size = Size(sent.req.body)
          /\ variant = "inline" =>
                TheRow(table, sent.req.name).content = Utf8Decode(sent.req.body)

C2_Witness ==
    /\ Answered("upload")
    /\ sent.resp.status = 200
    /\ ~sent.req.dbfail
    /\ sent.rowsBefore = 1
    /\ sent.rowChanged
    /\ Cardinality(RowsOf(table, sent.req.name)) = 1
    /\ TheRow(table, sent.req.name).size = Size(sent.req.body)

\* C3 as claimed: the count GET /images/list returns is the number of
\* filenames uploaded with success and not deleted since, in both variants.
C3_ListCountIsLive ==
    (sent.resp.handler = "list" /\ sent.resp.status = 200)
    => sent.resp.count = Cardinality(live)

\* C4 as claimed: an upload whose file has neither the SVG MIME type nor a
\* name ending in .svg is answered 400 and changes neither bytes nor table.
C4_RejectedIs400 ==
    ( /\ Answered("upload")
      /\ sent.req.mime # SvgMime
      /\ ~EndsWith(ToLowerCase(sent.req.name), <<".svg">>) )
    => /\ sent.resp.status = 400
       /\ ~sent.fileChanged
       /\ ~sent.rowChanged

\* C5 as claimed: an upload (of a file the filter accepts) of more than 5 MiB
\* is answered 400 "File too large. Maximum size is 5MB.", never reaches the
\* handler body, and leaves no file or row created or changed.
C5_TooLargeLeavesStorage ==
    ( /\ Answered("upload")
      /\ sent.req.mime = SvgMime \/ EndsWith(ToLowerCase(sent.req.name), <<".svg">>)
      /\ Size(sent.req.body) > 5 * 1024 * 1024 )
    => /\ sent.resp.status = 400
       /\ sent.resp.message = "File too large. Maximum size is 5MB."
       /\ sent.resp.handler # "upload"
       /\ ~sent.fileChanged
       /\ ~sent.rowChanged

\* C6: with no database failure in the request, DELETE /images/f answers 404
\* for an f never uploaded, 200 for an f whose last upload or delete was a
\* successful upload, and 404 when the last one was a delete answered 200.
C6_DeleteStatus ==
    (Answered("delete") /\ ~sent.req.dbfail)
    => /\ sent.pre.state = "never" => sent.resp.status = 404
       /\ sent.pre.state = "uploaded" => sent.resp.status = 200
       /\ sent.pre.state = "deleted" => sent.resp.status = 404

C6_Witness ==
    /\ Answered("delete")
    /\ ~sent.req.dbfail
    /\ sent.pre.state = "deleted"
    /\ sent.resp.status = 404

\* C7 as claimed: after a successful upload of a filename that was already
\* stored, the uploadedAt GET /api/images/:filename and GET /images/list
\* report is later than the one reported before the upload, in both variants.
C7_ReuploadAdvancesUploadedAt ==
    ( /\ Answered("upload")
      /\ sent.resp.status = 200
      /\ sent.req.before # 0 )
    => /\ ReportedAt(sent.req.name) > sent.req.before
       /\ ListedAt(sent.req.name) # 0 => ListedAt(sent.req.name) > sent.req.before

\* C8 as claimed: once DELETE /images/f has answered 200 and no upload of f
\* has run since the delete arrived, f has neither stored bytes nor a row.
C8_DeletedMeansGone ==
    \A f \in Names :
        hist[f].state = "deleted" => ~files[f].exists /\ ~HasRow(table, f)

\* C8 as amended: ... f has no stored bytes, and has no row unless, in the
\* filesystem variant, the delete's DELETE statement failed.
C8_DeletedMeansGoneUnlessDbFailed ==
    \A f \in Names :
        hist[f].state = "deleted" =>
            /\ ~files[f].exists
            /\ ~HasRow(table, f) \/ (variant = "fs" /\ hist[f].dbfail)

C8_Witness ==
    \E f \in Names :
        /\ variant = "fs"
        /\ hist[f].state = "deleted"
        /\ hist[f].dbfail
        /\ HasRow(table, f)
        /\ ~files[f].exists
        /\ Answered("delete")

\* C9 as claimed (filesystem variant): DELETE /images/f answers 404 whenever
\* the file or the row of f is absent when it arrives.
C9_Delete404IfEitherMissing ==
    ( /\ variant = "fs"
      /\ Answered("delete")
      /\ ~sent.req.hadFile \/ ~sent.req.hadRow )
    => sent.resp.status = 404

\* C9 as amended: DELETE /images/f answers 404 exactly when the file is
\* absent, with or without a row; with the file present it answers 200,
\* also when the row is missing.
C9_Delete404IffFileMissing ==
    (variant = "fs" /\ Answered("delete"))
    => /\ sent.resp.status = 404 <=> ~sent.req.hadFile
       /\ sent.req.hadFile => sent.resp.status = 200 /\ ~files[sent.req.name].exists

C9_Witness ==
    /\ variant = "fs"
    /\ Answered("delete")
    /\ sent.req.hadFile
    /\ ~sent.req.hadRow
    /\ sent.resp.status = 200

\* C10: when the upsert of an upload fails, the inline variant answers 500
\* "Database error while saving image" without success and leaves the table
\* as it was; the filesystem variant answers 200 success:true, the uploaded
\* file is on disk and the request wrote no row.
C10_UpsertFailure ==
    (Answered("upload") /\ sent.req.dbfail)
    => IF variant = "inline"
       THEN /\ sent.resp.status = 500
            /\ sent.resp.message = "Database error while saving image"
            /\ ~sent.resp.success
            /\ ~sent.rowChanged
       ELSE /\ sent.resp.status = 200
            /\ sent.resp.success
            /\ files[sent.req.name].exists
            /\ files[sent.req.name].content = sent.req.body
            /\ ~sent.rowChanged

C10_Witness ==
    /\ variant = "fs"
    /\ Answered("upload")
    /\ sent.req.dbfail
    /\ sent.resp.status = 200
    /\ files[sent.req.name].exists
    /\ ~HasRow(table, sent.req.name)

\* the bytes stored for f: the file (filesystem variant) or the content
\* column as GET /images/f would send it (inline variant)
StoredBytes(f) ==
    IF variant = "inline"
    THEN IF HasRow(table, f) THEN Utf8Encode(TheRow(table, f).content) ELSE <<>>
    ELSE files[f].content

\* the bytes an upload of body b stores when it runs alone
BytesOf(b) == IF variant = "inline" THEN Utf8Encode(Utf8Decode(b)) ELSE b

\* C11 as claimed: when two uploads of one filename with different contents
\* overlap and both are answered 200 (their upserts succeeding), the stored
\* state is that of one of them: the stored bytes and the row's size and
\* original_name all come from the same upload, in both variants.
\* (sent.pre is the outcome of the upload answered first: in the filesystem
\* variant it is still there only if that answer came after this upload
\* opened its file.)
C11_ConcurrentUploadsOneWinner ==
    ( /\ Answered("upload")
      /\ sent.resp.status = 200
      /\ sent.pre.state = "uploaded"
      /\ sent.pre.body # sent.req.body
      /\ ~sent.req.dbfail /\ ~sent.pre.dbfail
      /\ AllIdle )
    => \E b \in {sent.req.body, sent.pre.body} :
          /\ StoredBytes(sent.req.name) = BytesOf(b)
          /\ HasRow(table, sent.req.name)
          /\ TheRow(table, sent.req.name).size = Size(b)
          /\ TheRow(table, sent.req.name).original_name = sent.req.name

\* C12 as claimed: in both variants GET /images/list reaches the list handler
\* and answers the JSON listing (status 200 unless its query fails in the
\* inline variant), whatever is stored, also an image named "list".
C12_ListAlwaysListHandler ==
    (Answered("get") /\ sent.req.name = NameList)
    => /\ sent.resp.handler = "list"
       /\ ~sent.req.dbfail => sent.resp.status = 200

====
